---- MODULE Spec2Model ----
(***************************************************************************)
(* Model of streamlit_app.py: one Streamlit script run is a sequence of    *)
(* sections (load+filter, state selection, cost summary, forecast, email   *)
(* report, anomaly detection).  Every widget interaction re-executes the   *)
(* script from the top.                                                    *)
(*                                                                         *)
(* Dates are day ordinals: 1 is 2025-01-01, 181 is 2025-06-30, 365 is      *)
(* 2025-12-31.  Consumption and forecast values are integers; the mean is  *)
(* an exact rational or NaN.                                               *)
(***************************************************************************)
EXTENDS Integers, Sequences, FiniteSets, TLC

VARIABLES csv, run, pc, error, df, year, month, df_filtered,
          states_selected, df_compare, summary_data,
          ts, nextModel, runBase, model, fits,
          forecast, forecast_filtered,
          button, threshold_kwh, report_df, avg_forecast, alert, mail,
          df_state,
          fmt_in, fmt_out

vars == <<csv, run, pc, error, df, year, month, df_filtered,
          states_selected, df_compare, summary_data,
          ts, nextModel, runBase, model, fits,
          forecast, forecast_filtered,
          button, threshold_kwh, report_df, avg_forecast, alert, mail,
          df_state,
          fmt_in, fmt_out>>

None == "None"
\* the float NaN, written as the quotient 0/0
NaN == [num |-> 0, den |-> 0]

(* ---------------------------- bounds ----------------------------------- *)
\* number of script runs (reruns triggered by widget interaction) explored
MaxRuns == 2
\* largest number of states picked in the multiselect
MaxSelected == 2
\* longest forecast sequence handed to the report formatter on its own
MaxFmtLen == 3

(* ---------------------------- calendar --------------------------------- *)
\* last day ordinal of each month of a non-leap year
MonthEnds == <<31, 59, 90, 120, 151, 181, 212, 243, 273, 304, 334, 365>>

\* pandas .dt.year of a day ordinal (2025..2027 are not leap years)
YearOf(d) == 2025 + ((d - 1) \div 365)

\* pandas .dt.month of a day ordinal
MonthOf(d) ==
    LET doy == ((d - 1) % 365) + 1
    IN  CHOOSE m \in 1..12 :
            /\ doy <= MonthEnds[m]
            /\ (m > 1 => doy > MonthEnds[m - 1])

(* ---------------------------- sequences -------------------------------- *)
Range(s) == {s[i] : i \in 1..Len(s)}

RECURSIVE SumRange(_, _, _)
\* s[lo] + ... + s[hi], halving the range
SumRange(s, lo, hi) ==
    IF lo > hi THEN 0
    ELSE IF lo = hi THEN s[lo]
    ELSE LET mid == (lo + hi) \div 2
         IN  SumRange(s, lo, mid) + SumRange(s, mid + 1, hi)

\* sum of the integer sequence s
SumSeq(s) == SumRange(s, 1, Len(s))

SetMax(S) == CHOOSE x \in S : \A y \in S : y <= x

\* the elements of a set of positive integers in increasing order
Sorted(S) ==
    IF S = {} THEN <<>>
    ELSE SelectSeq([i \in 1..SetMax(S) |-> i], LAMBDA i : i \in S)

\* first occurrences, in order of appearance (pandas Series.unique)
Unique(s) ==
    LET first(v) == CHOOSE i \in 1..Len(s) :
                        s[i] = v /\ \A j \in 1..(i - 1) : s[j] # v
        at == Sorted({first(v) : v \in Range(s)})
    IN  [k \in 1..Len(at) |-> s[at[k]]]

RECURSIVE GCD(_, _)
GCD(a, b) == IF b = 0 THEN a ELSE GCD(b, a % b)

\* exact quotient n/d (d > 0) in lowest terms
Ratio(n, d) ==
    LET a == IF n < 0 THEN -n ELSE n
        g == GCD(a, d)
    IN  [num |-> n \div g, den |-> d \div g]

\* product of two quotients in lowest terms, reduced before multiplying
Times(a, b) ==
    LET g1 == GCD(IF a.num < 0 THEN -a.num ELSE a.num, b.den)
        g2 == GCD(IF b.num < 0 THEN -b.num ELSE b.num, a.den)
    IN  [num |-> (a.num \div g1) * (b.num \div g2),
         den |-> (a.den \div g2) * (b.den \div g1)]

(* ---------------------------- static data ------------------------------ *)
\* households per state: population // 4.5 (Python float floor division)
households_per_state ==
    [s \in {"Gujarat", "Bihar"} |->
        IF s = "Gujarat" THEN (70000000 * 10) \div 45
                         ELSE (130000000 * 10) \div 45]

(* ---------------------------- input files ------------------------------ *)
\* order of the states within one day of the file
StateOrder == <<"Gujarat", "Bihar", "Goa">>

LastDataDay == MonthEnds[6]

\* consumption recorded for state s on day d in the input files
Kwh(s, d) ==
    LET base == IF s = "Gujarat" THEN 300 ELSE IF s = "Bihar" THEN 410 ELSE 120
    IN  IF d % 13 = 5 THEN base + 500 + d ELSE base + 10 * (d % 3)

\* the candidate files: for every state the set of days it has a row for
Files ==
    { [Gujarat |-> 1..181,            Bihar |-> 1..181,  Goa |-> {}],
      [Gujarat |-> 1..181,            Bihar |-> 32..59,  Goa |-> {}],
      [Gujarat |-> 1..180,            Bihar |-> {10},    Goa |-> {}],
      [Gujarat |-> 170..181,          Bihar |-> {},      Goa |-> 1..31],
      [Gujarat |-> {40, 41, 45, 181} \cup (100..112),
                                      Bihar |-> 150..163, Goa |-> {}],
      [Gujarat |-> {}, Bihar |-> {}, Goa |-> {}] }

\* pd.read_csv + pd.to_datetime: the rows of the file, day by day and
\* within a day in StateOrder
read_csv(f) ==
    LET w == Len(StateOrder)
        cell(k) == [d |-> ((k - 1) \div w) + 1, s |-> StateOrder[((k - 1) % w) + 1]]
        cells == SelectSeq([k \in 1..(LastDataDay * w) |-> cell(k)],
                           LAMBDA c : c.d \in f[c.s])
    IN  [i \in 1..Len(cells) |->
            [Date |-> cells[i].d, State |-> cells[i].s,
             Residential_Consumption_kWh |-> Kwh(cells[i].s, cells[i].d)]]

(* ---------------------------- start of a run --------------------------- *)
RunLocalsInit ==
    /\ pc = "start"
    /\ error = None
    /\ df = <<>>
    /\ year = None
    /\ month = None
    /\ df_filtered = <<>>
    /\ states_selected = <<>>
    /\ df_compare = <<>>
    /\ summary_data = <<>>
    /\ ts = <<>>
    /\ model = None
    /\ fits = <<>>
    /\ forecast = <<>>
    /\ forecast_filtered = <<>>
    /\ button = FALSE
    /\ threshold_kwh = None
    /\ report_df = <<>>
    /\ avg_forecast = None
    /\ alert = FALSE
    /\ mail = None
    /\ df_state = <<>>

FormatterIdle ==
    /\ fmt_in = <<>>
    /\ fmt_out = <<>>

Init ==
    /\ csv \in Files
    /\ run = 1
    /\ nextModel = 0
    /\ runBase = 0
    /\ RunLocalsInit
    /\ FormatterIdle

(* ---------------------------- load and filter -------------------------- *)
\* number_input bounds of the year and month widgets
Years == {2025}
Months == 1..6

\* df["Year"] = df["Date"].dt.year ; df["Month"] = df["Date"].dt.month
WithYearMonth(rows) ==
    [i \in 1..Len(rows) |->
        [Date |-> rows[i].Date, State |-> rows[i].State,
         Residential_Consumption_kWh |-> rows[i].Residential_Consumption_kWh,
         Year |-> YearOf(rows[i].Date), Month |-> MonthOf(rows[i].Date)]]

\* df[(df["Year"] == year) & (df["Month"] == month)]
FilterYearMonth(rows, y, m) ==
    SelectSeq(rows, LAMBDA r : r.Year = y /\ r.Month = m)

LoadAndFilter(y, m) ==
    /\ pc = "start"
    /\ LET loaded == WithYearMonth(read_csv(csv))
           kept == FilterYearMonth(loaded, y, m)
       IN  /\ df' = loaded
           /\ year' = y
           /\ month' = m
           /\ df_filtered' = kept
           /\ pc' = IF kept = <<>> THEN "stopped" ELSE "select"
    /\ UNCHANGED <<csv, run, error, states_selected, df_compare, summary_data,
                   ts, nextModel, runBase, model, fits, forecast,
                   forecast_filtered, button, threshold_kwh, report_df,
                   avg_forecast, alert, mail, df_state, fmt_in, fmt_out>>

(* ---------------------------- state selection -------------------------- *)
\* df["State"].unique()
StateOptions(rows) == Unique([i \in 1..Len(rows) |-> rows[i].State])

\* the selections the multiselect can return: options without repetition
Selections(rows) ==
    LET opts == Range(StateOptions(rows))
    IN  {sel \in UNION {[1..n -> opts] : n \in 0..MaxSelected} :
            \A i, j \in 1..Len(sel) : i # j => sel[i] # sel[j]}

\* df_filtered[df_filtered["State"].isin(states_selected)]
IsIn(rows, sel) == SelectSeq(rows, LAMBDA r : r.State \in Range(sel))

SelectStates(sel) ==
    /\ pc = "select"
    /\ states_selected' = sel
    /\ df_compare' = IsIn(df_filtered, sel)
    /\ pc' = "summary"
    /\ UNCHANGED <<csv, run, error, df, year, month, df_filtered, summary_data,
                   ts, nextModel, runBase, model, fits, forecast,
                   forecast_filtered, button, threshold_kwh, report_df,
                   avg_forecast, alert, mail, df_state, fmt_in, fmt_out>>

(* ---------------------------- cost summary ----------------------------- *)
\* tariff rate in hundredths of a rupee per kWh (default 5.88)
Tariffs == {588}

\* rows[rows["State"] == state]
StateRows(rows, state) == SelectSeq(rows, LAMBDA r : r.State = state)

Consumption(rows) ==
    SumSeq([i \in 1..Len(rows) |-> rows[i].Residential_Consumption_kWh])

SummaryRow(state, tariff) ==
    LET total == Consumption(StateRows(df_filtered, state))
        households == households_per_state[state]
    IN  [State |-> state,
         Total_Consumption_kWh |-> total,
         Households |-> households,
         Avg_Consumption_Per_Household_kWh |-> Ratio(total, households),
         Estimated_Cost_Per_Household |->
             Times(Ratio(total, households), Ratio(tariff, 100))]

\* the states of the selection the loop handles before a missing key stops it
KnownPrefix(sel) ==
    LET bad == {i \in 1..Len(sel) : sel[i] \notin DOMAIN households_per_state}
    IN  IF bad = {} THEN sel
        ELSE SubSeq(sel, 1, (CHOOSE i \in bad : \A j \in bad : i <= j) - 1)

Summary(tariff) ==
    /\ pc = "summary"
    /\ LET done == KnownPrefix(states_selected)
       IN  /\ summary_data' =
                 [i \in 1..Len(done) |-> SummaryRow(done[i], tariff)]
           /\ IF Len(done) < Len(states_selected)
              THEN pc' = "crashed" /\ error' = "KeyError"
              ELSE pc' = "forecast" /\ error' = error
    /\ UNCHANGED <<csv, run, df, year, month, df_filtered, states_selected,
                   df_compare, ts, nextModel, runBase, model, fits, forecast,
                   forecast_filtered, button, threshold_kwh, report_df,
                   avg_forecast, alert, mail, df_state, fmt_in, fmt_out>>

(* ---------------------------- forecast --------------------------------- *)
\* variant: the sections run for any non-empty selection
OneStateSelected_AnySelected == Len(states_selected) >= 1

\* if len(states_selected) == 1: the guard of the forecast and anomaly
\* sections
OneStateSelected == Len(states_selected) = 1

\* Prophet.make_future_dataframe(periods=...)
Periods == 184
\* variant: the series is cut from the rows of the analysed month only
BuildSeries_AnalysedMonthOnly(rows, s) ==
    LET own == SelectSeq(rows, LAMBDA r : r.State = s /\ r.Month = month)
    IN  [i \in 1..Len(own) |->
            [ds |-> own[i].Date, y |-> own[i].Residential_Consumption_kWh]]

\* df[df["State"] == s][["Date", kWh]].rename(...): the whole history of s
BuildSeries(rows, s) ==
    LET own == StateRows(rows, s)
    IN  [i \in 1..Len(own) |->
            [ds |-> own[i].Date, y |-> own[i].Residential_Consumption_kWh]]

\* make_future_dataframe: the history dates, then `periods` days after the
\* last one
make_future_dataframe(series, periods) ==
    LET hist == {series[i].ds : i \in 1..Len(series)}
        last == SetMax(hist)
    IN  Sorted(hist) \o [i \in 1..periods |-> last + i]

\* The fitted additive model, trend plus weekly seasonality, is determined
\* by the optimiser; its coefficients are taken from a small set.
Coefficients == {[k |-> 300, g |-> 1, w |-> 5], [k |-> 500, g |-> 0, w |-> 0]}

yhat(c, d) == c.k + c.g * d + c.w * (d % 7)

\* Prophet.predict: one row per date of the frame it is given
predict(c, dates) ==
    [i \in 1..Len(dates) |-> [ds |-> dates[i], yhat |-> yhat(c, dates[i])]]

\* variant: the comparison admits June
FilterForecast_FromJune(fc) == SelectSeq(fc, LAMBDA p : MonthOf(p.ds) >= 6)

\* forecast[forecast["ds"].dt.month > 6]
FilterForecast(fc) == SelectSeq(fc, LAMBDA p : MonthOf(p.ds) > 6)

FitEvent(kind, id, n, outcome) ==
    [kind |-> kind, model |-> id, n |-> n, outcome |-> outcome]

ForecastSection(c) ==
    /\ pc = "forecast"
    /\ IF OneStateSelected
       THEN LET series == BuildSeries(df, states_selected[1])
                id == nextModel + 1
            IN  /\ ts' = series
                /\ nextModel' = id
                /\ model' = [kind |-> "Prophet", id |-> id]
                /\ IF Len(series) < 2   \* Prophet.fit: ValueError below 2 rows
                   THEN /\ fits' = Append(fits, FitEvent("Prophet", id,
                                                 Len(series), "ValueError"))
                        /\ error' = "ValueError"
                        /\ pc' = "crashed"
                        /\ UNCHANGED <<forecast, forecast_filtered>>
                   ELSE LET fc == predict(c,
                                     make_future_dataframe(series, Periods))
                        IN  /\ fits' = Append(fits, FitEvent("Prophet", id,
                                                     Len(series), "ok"))
                            /\ forecast' = fc
                            /\ forecast_filtered' = FilterForecast(fc)
                            /\ error' = error
                            /\ pc' = "email"
       ELSE /\ pc' = "anomaly"
            /\ UNCHANGED <<ts, nextModel, model, fits, forecast,
                           forecast_filtered, error>>
    /\ UNCHANGED <<csv, run, df, year, month, df_filtered, states_selected,
                   df_compare, summary_data, runBase, button, threshold_kwh,
                   report_df, avg_forecast, alert, mail, df_state,
                   fmt_in, fmt_out>>

(* ---------------------------- email report ----------------------------- *)
\* choices of the alert threshold widget (default 400.0)
Thresholds == {400, 600}

\* forecast_filtered[["ds", "yhat"]] with columns renamed
ReportTable(points) ==
    [i \in 1..Len(points) |->
        [Date |-> points[i].ds, Forecast_kWh |-> points[i].yhat]]

\* pandas Series.mean(): NaN for an empty column, else sum / count
Mean(vals) ==
    IF Len(vals) = 0 THEN NaN ELSE Ratio(SumSeq(vals), Len(vals))

\* avg_forecast > threshold_kwh (any comparison with NaN is False)
Exceeds(avg, thr) == IF avg = NaN THEN FALSE ELSE avg.num > thr * avg.den

\* the report table and the mean computed from it
FormatReport(points) ==
    LET table == ReportTable(points)
    IN  [table |-> table,
         mean |-> Mean([i \in 1..Len(table) |-> table[i].Forecast_kWh])]

EmailSection(clicked, thr, delivered) ==
    /\ pc = "email"
    /\ button' = clicked
    /\ threshold_kwh' = thr
    /\ IF clicked
       THEN LET rep == FormatReport(forecast_filtered)
            IN  /\ report_df' = rep.table
                /\ avg_forecast' = rep.mean
                /\ alert' = Exceeds(rep.mean, thr)
                /\ mail' = IF delivered THEN "sent" ELSE "failed"
       ELSE UNCHANGED <<report_df, avg_forecast, alert, mail>>
    /\ pc' = "anomaly"
    /\ UNCHANGED <<csv, run, error, df, year, month, df_filtered,
                   states_selected, df_compare, summary_data, ts, nextModel,
                   runBase, model, fits, forecast, forecast_filtered,
                   df_state, fmt_in, fmt_out>>

(* ---------------------------- anomaly detection ------------------------ *)
\* IsolationForest(contamination=0.03): contamination in percent
ContaminationPct == 3
RECURSIVE SubsetsUpTo(_, _)
SubsetsUpTo(S, k) ==
    IF k = 0 THEN {{}}
    ELSE LET smaller == SubsetsUpTo(S, k - 1)
         IN  smaller \cup {A \cup {x} : A \in smaller, x \in S}

\* most samples that can score strictly below the contamination percentile
MaxAnomalies(n) == ((ContaminationPct * (n - 1)) + 99) \div 100

\* fit_predict: one label (-1 anomaly, 1 normal) per sample, in sample
\* order.  The isolation scores are not computed; every labelling is allowed
\* that the percentile threshold permits and that gives equal samples equal
\* labels.
fit_predict(x) ==
    LET n == Len(x)
        sets == {A \in SubsetsUpTo(1..n, MaxAnomalies(n)) :
                    \A i \in A, j \in (1..n) \ A : x[i] # x[j]}
    IN  {[i \in 1..n |-> IF i \in A THEN -1 ELSE 1] : A \in sets}

\* variant: only the rows labelled normal are kept
WithAnomaly_NormalRowsOnly(rows, labels) ==
    LET keep == Sorted({i \in 1..Len(rows) : labels[i] = 1})
    IN  [k \in 1..Len(keep) |->
            [Date |-> rows[keep[k]].Date, State |-> rows[keep[k]].State,
             Residential_Consumption_kWh |->
                 rows[keep[k]].Residential_Consumption_kWh,
             Year |-> rows[keep[k]].Year, Month |-> rows[keep[k]].Month,
             Anomaly |-> labels[keep[k]]]]

\* df_state["Anomaly"] = labels
WithAnomaly(rows, labels) ==
    [i \in 1..Len(rows) |->
        [Date |-> rows[i].Date, State |-> rows[i].State,
         Residential_Consumption_kWh |-> rows[i].Residential_Consumption_kWh,
         Year |-> rows[i].Year, Month |-> rows[i].Month,
         Anomaly |-> labels[i]]]

AnomalySection ==
    /\ pc = "anomaly"
    /\ IF OneStateSelected
       THEN LET window == StateRows(df_compare, states_selected[1])
                x == [i \in 1..Len(window) |->
                         window[i].Residential_Consumption_kWh]
                id == nextModel + 1
            IN  /\ nextModel' = id
                /\ model' = [kind |-> "IsolationForest", id |-> id]
                /\ IF Len(window) < 1   \* fit_predict: ValueError on 0 samples
                   THEN /\ fits' = Append(fits, FitEvent("IsolationForest",
                                                 id, Len(window), "ValueError"))
                        /\ df_state' = window
                        /\ error' = "ValueError"
                        /\ pc' = "crashed"
                   ELSE /\ fits' = Append(fits, FitEvent("IsolationForest",
                                                 id, Len(window), "ok"))
                        /\ \E labels \in fit_predict(x) :
                               df_state' = WithAnomaly(window, labels)
                        /\ error' = error
                        /\ pc' = "done"
       ELSE /\ pc' = "done"
            /\ UNCHANGED <<nextModel, model, fits, df_state, error>>
    /\ UNCHANGED <<csv, run, df, year, month, df_filtered, states_selected,
                   df_compare, summary_data, ts, runBase, forecast,
                   forecast_filtered, button, threshold_kwh, report_df,
                   avg_forecast, alert, mail, fmt_in, fmt_out>>

(* ---------------------------- rerun ------------------------------------ *)
Ended == pc \in {"done", "stopped", "crashed"}

\* a widget interaction re-executes the script in a fresh namespace
Rerun ==
    /\ Ended
    /\ run < MaxRuns
    /\ run' = run + 1
    /\ runBase' = nextModel
    /\ pc' = "start"
    /\ error' = None
    /\ df' = <<>>
    /\ year' = None
    /\ month' = None
    /\ df_filtered' = <<>>
    /\ states_selected' = <<>>
    /\ df_compare' = <<>>
    /\ summary_data' = <<>>
    /\ ts' = <<>>
    /\ model' = None
    /\ fits' = <<>>
    /\ forecast' = <<>>
    /\ forecast_filtered' = <<>>
    /\ button' = FALSE
    /\ threshold_kwh' = None
    /\ report_df' = <<>>
    /\ avg_forecast' = None
    /\ alert' = FALSE
    /\ mail' = None
    /\ df_state' = <<>>
    /\ UNCHANGED <<csv, nextModel, fmt_in, fmt_out>>

Next ==
    \/ \E y \in Years, m \in Months : LoadAndFilter(y, m)
    \/ \E sel \in Selections(df) : SelectStates(sel)
    \/ \E tariff \in Tariffs : Summary(tariff)
    \/ \E c \in Coefficients : ForecastSection(c)
    \/ \E clicked \in BOOLEAN, thr \in Thresholds, delivered \in BOOLEAN :
           EmailSection(clicked, thr, delivered)
    \/ AnomalySection
    \/ Rerun

Spec == Init /\ [][Next]_vars

(* ---------------------------- report formatter alone ------------------- *)
\* forecast points handed to the formatter: any short sequence of points
FmtDates == {182, 183}
FmtValues == {0, 390, 405}
FmtPoints == [ds : FmtDates, yhat : FmtValues]
FmtInputs == UNION {[1..n -> FmtPoints] : n \in 0..MaxFmtLen}

InitFormatter ==
    /\ csv \in Files
    /\ run = 1
    /\ nextModel = 0
    /\ runBase = 0
    /\ RunLocalsInit
    /\ fmt_in \in FmtInputs
    /\ fmt_out = <<>>

ApplyFormatter ==
    /\ fmt_out = <<>>
    /\ fmt_out' = <<FormatReport(fmt_in)>>
    /\ UNCHANGED <<csv, run, pc, error, df, year, month, df_filtered,
                   states_selected, df_compare, summary_data, ts, nextModel,
                   runBase, model, fits, forecast, forecast_filtered, button,
                   threshold_kwh, report_df, avg_forecast, alert, mail,
                   df_state, fmt_in>>

NextFormatter == ApplyFormatter

SpecFormatter == InitFormatter /\ [][NextFormatter]_vars

(* ---------------------------- properties ------------------------------- *)
\* a model was constructed in this run: the forecast section was entered
\* with exactly one state selected
ForecastRan == nextModel > runBase

\* Prophet.fit and predict returned
ForecastOk ==
    /\ fits # <<>>
    /\ fits[1].kind = "Prophet"
    /\ fits[1].outcome = "ok"

\* the anomaly section was entered with exactly one state selected
AnomalyRan == ForecastRan /\ model.kind = "IsolationForest"

DatesOf(points) == [i \in 1..Len(points) |-> points[i].ds]

LastDate(series) == SetMax({series[i].ds : i \in 1..Len(series)})

\* positions, in table order, of the rows of df that satisfy the test
Positions(Test(_)) ==
    Sorted({i \in 1..Len(df) : Test(df[i])})

\* C1: for a history of at least 14 observations with last date L, the
\* forecast kept after filtering is exactly the dates L+1 .. L+H, one point
\* per day, in increasing order, with no date at or before L.
C1_ForecastExtendsHistory ==
    (ForecastOk /\ Len(ts) >= 14) =>
        DatesOf(forecast_filtered) =
            [i \in 1..Periods |-> LastDate(ts) + i]

\* C2: the series built for forecasting holds every row of the whole table
\* whose State is the selected one, whatever month is analysed, and no row
\* of another state; with no such row it is empty.
C2_SeriesIsWholeHistoryOfState ==
    ForecastRan =>
        LET own(r) == r.State = states_selected[1]
            at == Positions(own)
        IN  /\ Len(ts) = Len(at)
            /\ \A k \in 1..Len(at) :
                   /\ ts[k].ds = df[at[k]].Date
                   /\ ts[k].y = df[at[k]].Residential_Consumption_kWh

C2_Witness ==
    /\ ForecastRan
    /\ \E k \in 1..Len(ts) : MonthOf(ts[k].ds) # month
    /\ \E i \in 1..Len(df) : df[i].State # states_selected[1]

\* C3: a series that is empty or shorter than 14 observations makes the
\* forecast step fail with InsufficientData, and no fit is attempted on it.
C3_ShortSeriesIsRejectedBeforeFit ==
    (ForecastRan /\ Len(ts) < 14) =>
        /\ error = "InsufficientData"
        /\ \A i \in 1..Len(fits) : fits[i].kind # "Prophet"

\* C4: an error raised in the forecast section skips only that section: the
\* run does not abort and the anomaly section is still executed.
C4_ForecastErrorDoesNotAbortRun ==
    (Ended /\ fits # <<>> /\ fits[1].kind = "Prophet"
           /\ fits[1].outcome # "ok") =>
        /\ pc = "done"
        /\ \E i \in 1..Len(fits) : fits[i].kind = "IsolationForest"

\* C5: the anomaly step labels the selected state's rows of the selected
\* month one to one: same number of rows, same order, each label attached
\* to the date and consumption of the row it labels.
C5_OneLabelPerRecordInOrder ==
    AnomalyRan =>
        LET inWindow(r) == /\ r.State = states_selected[1]
                           /\ r.Year = year
                           /\ r.Month = month
            at == Positions(inWindow)
        IN  /\ Len(df_state) = Len(at)
            /\ \A k \in 1..Len(at) :
                   /\ df_state[k].Date = df[at[k]].Date
                   /\ df_state[k].Residential_Consumption_kWh =
                          df[at[k]].Residential_Consumption_kWh
                   /\ df_state[k].Anomaly \in {-1, 1}

C5_Witness ==
    /\ pc = "done"
    /\ AnomalyRan
    /\ Len(df_state) >= 2
    /\ \E k \in 1..Len(df_state) : df_state[k].Anomaly = -1
    /\ \E k \in 1..Len(df_state) : df_state[k].Anomaly = 1

\* C6: the anomaly step never raises on a window of 0 to 9 rows, the empty
\* window of a state without rows in the selected month included.
C6_SmallWindowDoesNotCrash ==
    (AnomalyRan /\ Len(df_state) <= 9) => pc = "done"

C8_OneForecastFitThenOneAnomalyFit ==
    (Ended /\ ForecastRan) =>
        /\ Len(fits) = 2
        /\ fits[1].kind = "Prophet"
        /\ fits[2].kind = "IsolationForest"
        /\ fits[1].model > runBase
        /\ fits[2].model > runBase
        /\ fits[1].model # fits[2].model

\* C9: from the 181 days 1 Jan .. 30 Jun 2025 the kept forecast is exactly
\* the 184 days 1 Jul .. 31 Dec 2025 and none of the historical days.
C9_JanJunHistoryGivesJulDecForecast ==
    (ForecastOk /\ DatesOf(ts) = [i \in 1..181 |-> i]) =>
        /\ Len(forecast_filtered) = 184
        /\ \A i \in 1..184 : forecast_filtered[i].ds = 181 + i
        /\ \A i \in 1..Len(forecast_filtered) :
               forecast_filtered[i].ds \notin 1..181

C9_Witness ==
    /\ ForecastOk
    /\ Len(ts) = 181
    /\ DatesOf(ts) = [i \in 1..181 |-> i]
    /\ forecast_filtered # <<>>
    /\ Len(forecast) > Len(forecast_filtered)

\* C10: a fit happens, and a report is sent, only when the month's table is
\* not empty and exactly one state is selected; an empty month stops the run
\* before any later step.
C10_FitsOnlyForOneStateOfNonEmptyMonth ==
    /\ (fits # <<>> \/ ForecastRan \/ mail # None) =>
           (df_filtered # <<>> /\ Len(states_selected) = 1)
    /\ (pc # "start" /\ df_filtered = <<>>) =>
           /\ pc = "stopped"
           /\ states_selected = <<>>
           /\ summary_data = <<>>
           /\ fits = <<>>
           /\ mail = None

C10_Witness ==
    /\ pc = "done"
    /\ Len(states_selected) = 2
    /\ df_compare # <<>>
    /\ fits = <<>>
    /\ mail = None

====
